---- MODULE Spec2Model ----
(***************************************************************************)
(* geozero-core, src/geojson_parser.rs: the GeoJSON reader.                *)
(*                                                                         *)
(* process_geojson sniffs the document's shape from a bounded prefix       *)
(* (read_geojson_prelude), then decodes with serde_json and pushes the     *)
(* decoded geometry to a FeatureProcessor (process_feature,                *)
(* process_geometry).                                                      *)
(*                                                                         *)
(* The input is modelled as the sequence of its JSON tokens, each with its *)
(* length in bytes, so that byte offsets, the 1024 byte cap of the prelude *)
(* reader and the position of the first '[' are those of the text.         *)
(* serde_json is modelled by a recursive-descent parser over the tokens    *)
(* and by the decoders that #[derive(Deserialize)] generates for the       *)
(* structs and enums of the source.  Not modelled: fractional numbers and  *)
(* string escapes, the sequence form serde accepts for a derived struct,   *)
(* a variant index as the tag of Geometry, I/O errors of the reader and    *)
(* invalid UTF-8.                                                          *)
(***************************************************************************)
EXTENDS Integers, Sequences, FiniteSets, TLC

VARIABLES
    input,        \* the bytes behind `reader`, as tokens
    pc,           \* position in process_geojson
    geojsontype,  \* process_geojson: geojsontype (line 89)
    read_ofs,     \* process_geojson: read_ofs (line 89)
    seq,          \* read_features: seq, the iterator of line 120
    decoded,      \* outcome of the serde_json::from_reader call made, if any
    feat,         \* process_feature: feat, the feature being dispatched
    geom,         \* process_geometry: geom, the geometry being dispatched
    step,         \* process_geometry: number of the next processor call
    ret,          \* where process_geometry returns to
    dispatched,   \* number of process_feature calls made
    events,       \* the calls the processor has received, in order
    failedAt,     \* number of the first processor call that signalled failure, or 0
    result        \* what process_geojson did: "Ok", "Err", "Panic" ("" while running)

vars == <<input, pc, geojsontype, read_ofs, seq, decoded, feat, geom, step, ret,
          dispatched, events, failedAt, result>>

-----------------------------------------------------------------------------
(* Bounds of the documents the model reads.                                *)

MaxFeatures == 2
MaxCoords == 2
MaxRings == 2

-----------------------------------------------------------------------------
(* The input text: tokens and their bytes.                                 *)

\* k: "p" punctuation, "s" string literal, "n" number, "l" the literals
\*    null, true and false, "w" whitespace run, "x" fragment of a token that was cut (c = "[" when it ends with '[').
Tok(k, c, n) == [k |-> k, c |-> c, n |-> n]

LBrace == Tok("p", "{", 0)
RBrace == Tok("p", "}", 0)
LBrack == Tok("p", "[", 0)
RBrack == Tok("p", "]", 0)
Comma == Tok("p", ",", 0)
Colon == Tok("p", ":", 0)
Str(s) == Tok("s", s, 0)
Num(n) == Tok("n", "", n)
Lit(c) == Tok("l", c, 0)
Ws(b) == Tok("w", "", b)
Frag(c, b) == Tok("x", c, b)

RECURSIVE Digits(_)
Digits(n) == IF n < 0 THEN 1 + Digits(-n)
             ELSE IF n < 10 THEN 1 ELSE 1 + Digits(n \div 10)

\* The one string of the model's documents that holds a '[': the character
\* index of its '[' (0: none).
BracketString == "a[b"
BracketIn(s) == IF s = BracketString THEN 2 ELSE 0

Bytes(t) == CASE t.k = "p" -> 1
              [] t.k = "s" -> Len(t.c) + 2
              [] t.k = "n" -> Digits(t.n)
              [] t.k = "l" -> Len(t.c)
              [] OTHER -> t.n

RECURSIVE TotalBytes(_)
TotalBytes(ts) == IF ts = <<>> THEN 0 ELSE Bytes(Head(ts)) + TotalBytes(Tail(ts))

\* Byte index, within the token, of its first '[' (0: none).
BracketOffset(t) == CASE t = LBrack -> 1
                      [] t.k = "s" /\ BracketIn(t.c) > 0 -> BracketIn(t.c) + 1
                      [] t.k = "x" /\ t.c = "[" -> t.n
                      [] OTHER -> 0

\* The first b bytes of a token longer than b bytes.
Part(t, b) == IF t.k = "w" THEN Ws(b) ELSE Frag("", b)

\* The bytes of a token from byte b+1 on.
Rest(t, b) == IF t.k = "w" THEN Ws(t.n - b) ELSE Frag("", Bytes(t) - b)

\* reader.seek(SeekFrom::Start(ofs)): what is read from byte offset ofs on.
RECURSIVE SeekFrom(_, _)
SeekFrom(ts, ofs) ==
    IF ofs = 0 \/ ts = <<>> THEN ts
    ELSE IF Bytes(Head(ts)) <= ofs THEN SeekFrom(Tail(ts), ofs - Bytes(Head(ts)))
    ELSE <<Rest(Head(ts), ofs)>> \o Tail(ts)

-----------------------------------------------------------------------------
(* serde_json: the JSON grammar over tokens.                               *)

StrV(s) == [t |-> "str", s |-> s]
NumV(n) == [t |-> "num", n |-> n]
LitV(s) == [t |-> "lit", s |-> s]
ObjV(m) == [t |-> "obj", m |-> m]
ArrV(e) == [t |-> "arr", e |-> e]
Null == [t |-> "null"]

Parsed(v, n) == [ok |-> TRUE, v |-> v, n |-> n]
Failed == [ok |-> FALSE, v |-> Null, n |-> 0]

StripWs(ts) == SelectSeq(ts, LAMBDA t : t.k # "w")

RECURSIVE ParseValue(_, _), ParseMembers(_, _, _), ParseElems(_, _, _)

\* The value that starts at token i: [ok, v, n], n the token after it.
ParseValue(ts, i) ==
    IF i > Len(ts) THEN Failed
    ELSE LET t == ts[i] IN
         CASE t.k = "s" -> Parsed(StrV(t.c), i + 1)
           [] t.k = "n" -> Parsed(NumV(t.n), i + 1)
           [] t.k = "l" -> Parsed(LitV(t.c), i + 1)
           [] t = LBrace ->
                IF i + 1 <= Len(ts) /\ ts[i + 1] = RBrace
                THEN Parsed(ObjV(<<>>), i + 2)
                ELSE ParseMembers(ts, i + 1, <<>>)
           [] t = LBrack ->
                IF i + 1 <= Len(ts) /\ ts[i + 1] = RBrack
                THEN Parsed(ArrV(<<>>), i + 2)
                ELSE ParseElems(ts, i + 1, <<>>)
           [] OTHER -> Failed

\* The members of an object from the key at token i on.
ParseMembers(ts, i, acc) ==
    IF i + 1 > Len(ts) \/ ts[i].k # "s" \/ ts[i + 1] # Colon THEN Failed
    ELSE LET r == ParseValue(ts, i + 2) IN
         IF ~r.ok \/ r.n > Len(ts) THEN Failed
         ELSE LET acc2 == Append(acc, [k |-> ts[i].c, v |-> r.v]) IN
              IF ts[r.n] = RBrace THEN Parsed(ObjV(acc2), r.n + 1)
              ELSE IF ts[r.n] = Comma THEN ParseMembers(ts, r.n + 1, acc2)
              ELSE Failed

\* The elements of an array from the element at token i on.
ParseElems(ts, i, acc) ==
    LET r == ParseValue(ts, i) IN
    IF ~r.ok \/ r.n > Len(ts) THEN Failed
    ELSE LET acc2 == Append(acc, r.v) IN
         IF ts[r.n] = RBrack THEN Parsed(ArrV(acc2), r.n + 1)
         ELSE IF ts[r.n] = Comma THEN ParseElems(ts, r.n + 1, acc2)
         ELSE Failed

\* serde_json::from_str / from_reader: one value, then Deserializer::end(),
\* which accepts nothing but whitespace after it.
FromJson(text) ==
    LET ts == StripWs(text)
        r == ParseValue(ts, 1)
    IN IF r.ok /\ r.n = Len(ts) + 1 THEN r ELSE Failed

-----------------------------------------------------------------------------
(* The decoders #[derive(Deserialize)] generates.                          *)

Decoded(v) == [ok |-> TRUE, v |-> v]
DecodeError == [ok |-> FALSE, v |-> Null]

\* The values of the members named key, in document order. A derived struct
\* wants exactly one: none is "missing field", two are "duplicate field".
Field(m, key) == SelectSeq(m, LAMBDA e : e.k = key)

HasString(m, key, variants) ==
    /\ Len(Field(m, key)) = 1
    /\ Field(m, key)[1].v.t = "str"
    /\ Field(m, key)[1].v.s \in variants

\* An enum of unit variants (GeojsonType, FeatureType), as serde_json's
\* deserialize_enum reads it: "Name", or { "Name": null }.
IsUnitVariant(v, variants) ==
    \/ v.t = "str" /\ v.s \in variants
    \/ /\ v.t = "obj" /\ Len(v.m) = 1 /\ v.m[1].k \in variants
       /\ v.m[1].v.t = "lit" /\ v.m[1].v.s = "null"
UnitVariant(v) == IF v.t = "str" THEN v.s ELSE v.m[1].k

HasUnitVariant(m, key, variants) ==
    Len(Field(m, key)) = 1 /\ IsUnitVariant(Field(m, key)[1].v, variants)

GeojsonType == {"Unknwown", "FeatureCollection", "Feature", "Geometry"}

\* struct GeojsonPrelude { type: GeojsonType }, other members ignored.
GeojsonPrelude(v) ==
    IF v.t = "obj" /\ HasUnitVariant(v.m, "type", GeojsonType)
    THEN Decoded([obj_type |-> UnitVariant(Field(v.m, "type")[1].v)])
    ELSE DecodeError

\* f32: the nearest 24 bit significand, ties to even; `as f64` is exact.
RECURSIVE Ulp(_)
Ulp(a) == IF a < 16777216 THEN 1 ELSE 2 * Ulp(a \div 2)

F32(n) ==
    LET a == IF n < 0 THEN -n ELSE n
        u == Ulp(a)
        q == a \div u
        r == a % u
        m == IF 2 * r > u \/ (2 * r = u /\ q % 2 = 1) THEN (q + 1) * u ELSE q * u
    IN IF n < 0 THEN -m ELSE m

\* type Coordinate = (f32, f32): an array of exactly two numbers.
IsCoordinate(v) ==
    v.t = "arr" /\ Len(v.e) = 2 /\ v.e[1].t = "num" /\ v.e[2].t = "num"
Coordinate(v) == <<F32(v.e[1].n), F32(v.e[2].n)>>

\* type Coordinates = Vec<Coordinate>, and the vectors of it.
IsCoordinates(v) == v.t = "arr" /\ \A i \in 1..Len(v.e) : IsCoordinate(v.e[i])
Coordinates(v) == [i \in 1..Len(v.e) |-> Coordinate(v.e[i])]
IsVecCoordinates(v) == v.t = "arr" /\ \A i \in 1..Len(v.e) : IsCoordinates(v.e[i])
VecCoordinates(v) == [i \in 1..Len(v.e) |-> Coordinates(v.e[i])]
IsVecVecCoordinates(v) ==
    v.t = "arr" /\ \A i \in 1..Len(v.e) : IsVecCoordinates(v.e[i])
VecVecCoordinates(v) == [i \in 1..Len(v.e) |-> VecCoordinates(v.e[i])]

GeometryVariants == {"Point", "MultiPoint", "LineString", "MultiLineString",
                     "Polygon", "MultiPolygon", "GeometryCollection"}

Geom(kind, coordinates) == [kind |-> kind, coordinates |-> coordinates]
NoGeom == Geom("", <<>>)
NoFeature == [obj_type |-> "", properties |-> <<>>, geometry |-> NoGeom]

\* #[serde(tag = "type")] enum Geometry: the tag picks the variant, the
\* variant's `coordinates` is decoded from the other members; the unit
\* variant GeometryCollection accepts any other members.
Geometry(v) ==
    IF ~(v.t = "obj" /\ HasString(v.m, "type", GeometryVariants)) THEN DecodeError
    ELSE LET kind == Field(v.m, "type")[1].v.s
             cs == Field(v.m, "coordinates")
             c == cs[1].v
         IN IF kind = "GeometryCollection" THEN Decoded(Geom(kind, <<>>))
            ELSE IF Len(cs) # 1 THEN DecodeError
            ELSE CASE kind = "Point" ->
                        IF IsCoordinate(c) THEN Decoded(Geom(kind, Coordinate(c)))
                        ELSE DecodeError
                   [] kind \in {"MultiPoint", "LineString"} ->
                        IF IsCoordinates(c) THEN Decoded(Geom(kind, Coordinates(c)))
                        ELSE DecodeError
                   [] kind \in {"MultiLineString", "Polygon"} ->
                        IF IsVecCoordinates(c)
                        THEN Decoded(Geom(kind, VecCoordinates(c)))
                        ELSE DecodeError
                   [] OTHER ->
                        IF IsVecVecCoordinates(c)
                        THEN Decoded(Geom(kind, VecVecCoordinates(c)))
                        ELSE DecodeError

\* struct Feature { type: FeatureType, properties: Map, geometry: Geometry }.
\* `properties` is kept as the members of its object.
Feature(v) ==
    IF /\ v.t = "obj"
       /\ HasUnitVariant(v.m, "type", {"Feature"})
       /\ Len(Field(v.m, "properties")) = 1
       /\ Field(v.m, "properties")[1].v.t = "obj"
       /\ Len(Field(v.m, "geometry")) = 1
       /\ Geometry(Field(v.m, "geometry")[1].v).ok
    THEN Decoded([obj_type |-> "Feature",
                  properties |-> Field(v.m, "properties")[1].v.m,
                  geometry |-> Geometry(Field(v.m, "geometry")[1].v).v])
    ELSE DecodeError

\* serde_json::from_str::<GeojsonPrelude>(text)
from_str_GeojsonPrelude(text) ==
    IF FromJson(text).ok THEN GeojsonPrelude(FromJson(text).v) ELSE DecodeError

\* serde_json::from_reader::<Feature>(reader)
from_reader_Feature(reader) ==
    IF FromJson(reader).ok THEN Feature(FromJson(reader).v) ELSE DecodeError

\* serde_json::from_reader::<Geometry>(reader)
from_reader_Geometry(reader) ==
    IF FromJson(reader).ok THEN Geometry(FromJson(reader).v) ELSE DecodeError

-----------------------------------------------------------------------------
(* read_geojson_prelude.                                                   *)

PreludeCap == 1024

\* bufreader.take(room).read_until(b'[', &mut buf): the bytes up to and
\* including the first '[', and no more than `room` of them.
RECURSIVE ReadUntilBracket(_, _)
ReadUntilBracket(ts, room) ==
    IF ts = <<>> \/ room = 0 THEN <<>>
    ELSE LET t == Head(ts)
             bo == BracketOffset(t)
         IN IF bo > 0 /\ bo <= room
            THEN IF bo = Bytes(t) THEN <<t>> ELSE <<Frag("[", bo)>>
            ELSE IF Bytes(t) <= room
            THEN <<t>> \o ReadUntilBracket(Tail(ts), room - Bytes(t))
            ELSE <<Part(t, room)>>

\* prelude.ends_with("[")
EndsWithBracket(buf) ==
    buf # <<>> /\ BracketOffset(buf[Len(buf)]) = Bytes(buf[Len(buf)])

\* prelude.replace("[", "0}")
RECURSIVE ReplaceBracket(_)
ReplaceBracket(ts) ==
    IF ts = <<>> THEN <<>>
    ELSE LET t == Head(ts) IN
         (CASE t = LBrack -> <<Num(0), RBrace>>
            [] t.k = "x" /\ t.c = "[" -> <<Frag("", t.n + 1)>>
            [] OTHER -> <<t>>) \o ReplaceBracket(Tail(ts))

InitialType == "Unknwown"

\* read_geojson_prelude without the check of the decoded `type`: whatever
\* ends with '[' is taken for a FeatureCollection.
read_geojson_prelude_unchecked(reader) ==
    LET buf == ReadUntilBracket(reader, PreludeCap) IN
    IF EndsWithBracket(buf)
    THEN [geojsontype |-> "FeatureCollection", read_ofs |-> TotalBytes(buf)]
    ELSE [geojsontype |-> InitialType, read_ofs |-> 0]

read_geojson_prelude(reader) ==
    LET buf == ReadUntilBracket(reader, PreludeCap)
        preludeobj == ReplaceBracket(buf)
        gj == from_str_GeojsonPrelude(preludeobj)
    IN IF gj.ok
       THEN [geojsontype |-> gj.v.obj_type,
             read_ofs |-> IF gj.v.obj_type = "FeatureCollection" /\ EndsWithBracket(buf)
                          THEN TotalBytes(buf) ELSE 0]
       ELSE [geojsontype |-> InitialType, read_ofs |-> 0]

-----------------------------------------------------------------------------
(* The documents read: the shapes of the JSON texts of the source's tests, *)
(* with the variations the reader has to tell apart.                       *)

RECURSIVE Join(_, _)
Join(parts, sep) ==
    IF parts = <<>> THEN <<>>
    ELSE IF Len(parts) = 1 THEN parts[1]
    ELSE parts[1] \o sep \o Join(Tail(parts), sep)

Member(k, v) == <<Str(k), Colon>> \o v
Object(members) == <<LBrace>> \o Join(members, <<Comma>>) \o <<RBrace>>
Array(elems) == <<LBrack>> \o Join(elems, <<Comma>>) \o <<RBrack>>

\* The i-th coordinate of a line or ring; the second one's x is no f32.
CoordinateText(i) ==
    Array(<<<<Num(IF i = 2 THEN 16777217 ELSE 10 * i)>>, <<Num(10 + i)>>>>)
CoordinatesText(n) == Array([i \in 1..n |-> CoordinateText(i)])

\* A geometry [kind, n, m]: a Point of n numbers; n points or vertices;
\* n lines of two vertices; m rings of n vertices; n polygons of one ring.
GeometryText(g) ==
    Object(
        <<Member("type", <<Str(g.kind)>>)>> \o
        (CASE g.kind \in {"Point", "Circle", "Geometry"} ->
                <<Member("coordinates", Array([i \in 1..g.n |-> <<Num(1)>>]))>>
           [] g.kind \in {"MultiPoint", "LineString"} ->
                <<Member("coordinates", CoordinatesText(g.n))>>
           [] g.kind = "MultiLineString" ->
                <<Member("coordinates", Array([i \in 1..g.n |-> CoordinatesText(2)]))>>
           [] g.kind = "Polygon" ->
                <<Member("coordinates", Array([i \in 1..g.m |-> CoordinatesText(g.n)]))>>
           [] g.kind = "MultiPolygon" ->
                <<Member("coordinates",
                         Array([i \in 1..g.n |-> Array(<<CoordinatesText(2)>>)]))>>
           [] OTHER ->
                IF g.n = 0 THEN <<>> ELSE <<Member("geometries", Array(<<>>))>>))

G(kind, n, m) == [kind |-> kind, n |-> n, m |-> m]

Geometries ==
    {G("Point", 2, 1), G("Point", 3, 1), G("Circle", 2, 1),
     G("GeometryCollection", 0, 1), G("GeometryCollection", 1, 1)}
    \cup {G(k, n, 1) : k \in {"MultiPoint", "LineString", "MultiLineString",
                              "MultiPolygon"}, n \in 0..MaxCoords}
    \cup {G("Polygon", n, m) : n \in 0..MaxCoords, m \in 1..MaxRings}

PropertiesText(p) ==
    CASE p = "empty" -> Object(<<>>)
      [] p = "a" -> Object(<<Member("a", <<Num(1)>>)>>)
      [] OTHER -> Object(<<Member("test3", <<Str("test3")>>), Member("a", <<Num(1)>>)>>)

\* The member `type` of a document or a feature, [form, name]: the string
\* "name", the object { "name": null }, the number 0, or no member at all.
T(form, name) == [form |-> form, name |-> name]

TypeMembers(type) ==
    CASE type.form = "string" -> <<Member("type", <<Str(type.name)>>)>>
      [] type.form = "map" ->
            <<Member("type", Object(<<Member(type.name, <<Lit("null")>>)>>))>>
      [] type.form = "number" -> <<Member("type", <<Num(0)>>)>>
      [] OTHER -> <<>>

\* A feature [ftype, props, geom], its members in the order of the tests.
FeatureText(f) ==
    Object(TypeMembers(f.ftype) \o
           <<Member("geometry", GeometryText(f.geom))>> \o
           (IF f.props = "none" THEN <<>>
            ELSE <<Member("properties", PropertiesText(f.props))>>))

F(ftype, props, g) == [ftype |-> ftype, props |-> props, geom |-> g]

Features ==
    {F(t, p, g) : t \in {T("string", "Feature"), T("string", "WrongType")},
                  p \in {"none", "empty", "a", "ab"}, g \in Geometries}

\* The features the longer collections are made of.
CollectionFeatures ==
    {F(T("string", "Feature"), "a", G("Point", 2, 1)),
     F(T("string", "Feature"), "ab", G("Polygon", MaxCoords, 1)),
     F(T("string", "WrongType"), "a", G("Point", 2, 1)),
     F(T("string", "Feature"), "none", G("Point", 2, 1)),
     F(T("string", "Feature"), "empty", G("GeometryCollection", 0, 1))}

SeqsUpTo(S, n) == UNION {[1..k -> S] : k \in 0..n}

\* The members that precede `features`.
Mids == {"none", "name", "crs", "bbox", "bracket", "pad", "padmore"}

MidMembers(mid) ==
    CASE mid = "name" -> <<Member("name", <<Str("poly_landmarks")>>)>>
      [] mid = "crs" ->
            <<Member("crs", Object(<<Member("type", <<Str("name")>>),
                                     Member("properties", Object(<<>>))>>))>>
      [] mid = "bbox" ->
            <<Member("bbox", Array(<<<<Num(0)>>, <<Num(0)>>, <<Num(1)>>, <<Num(1)>>>>))>>
      [] mid = "bracket" -> <<Member("name", <<Str(BracketString)>>)>>
      [] OTHER -> <<>>

\* { "type": type, mid, "features": [ f, f ... ] } with the features joined
\* by sep, the closing "]}" left out when the text is truncated, and with
\* "pad" as much whitespace before "features" as puts the '[' on byte
\* PreludeCap ("padmore": on the byte after it).
CollectionText(type, mid, feats, sep, closed) ==
    LET members == TypeMembers(type) \o MidMembers(mid)
        head == <<LBrace>> \o Join(members, <<Comma>>) \o
                (IF members = <<>> THEN <<>> ELSE <<Comma>>)
        key == <<Str("features"), Colon>>
        room == PreludeCap - TotalBytes(head) - TotalBytes(key) - 1
        pad == CASE mid = "pad" -> <<Ws(room)>>
                 [] mid = "padmore" -> <<Ws(room + 1)>>
                 [] OTHER -> <<>>
    IN head \o pad \o key \o <<LBrack>> \o
       Join([i \in 1..Len(feats) |-> FeatureText(feats[i])], sep) \o
       (IF closed THEN <<RBrack, RBrace>> ELSE <<>>)

\* { "features": [ ... ], "type": "FeatureCollection" }
TypeLastText(feats) ==
    <<LBrace, Str("features"), Colon>> \o
    Array([i \in 1..Len(feats) |-> FeatureText(feats[i])]) \o
    <<Comma>> \o TypeMembers(T("string", "FeatureCollection"))[1] \o <<RBrace>>

\* A bare Feature, with or without a bbox member before its geometry.
BareFeatureText(f, bbox) ==
    Object(TypeMembers(f.ftype) \o
           (IF bbox THEN MidMembers("bbox") ELSE <<>>) \o
           <<Member("geometry", GeometryText(f.geom))>> \o
           (IF f.props = "none" THEN <<>>
            ELSE <<Member("properties", PropertiesText(f.props))>>))

DocumentTypes ==
    {T("string", "FeatureCollection"), T("string", "WrongType"),
     T("string", "Geometry"), T("string", "Unknwown"), T("absent", ""),
     T("map", "FeatureCollection"), T("map", "WrongType"), T("number", "")}

Documents ==
    {CollectionText(type, mid, feats, sep, closed) :
        type \in DocumentTypes,
        mid \in Mids,
        feats \in SeqsUpTo(CollectionFeatures, MaxFeatures),
        sep \in {<<Comma>>, <<>>},
        closed \in BOOLEAN}
    \cup {CollectionText(T("string", "FeatureCollection"), "none", <<f>>, <<>>, closed) :
            f \in Features, closed \in BOOLEAN}
    \cup {TypeLastText(feats) : feats \in SeqsUpTo(CollectionFeatures, MaxFeatures)}
    \cup {BareFeatureText(f, bbox) : f \in Features, bbox \in BOOLEAN}
    \cup {BareFeatureText(F(T(form, "Feature"), "a", g), bbox) :
            form \in {"map", "number", "absent"}, g \in Geometries, bbox \in BOOLEAN}
    \cup {GeometryText(g) : g \in Geometries \cup {G("Geometry", 2, 1)}}

-----------------------------------------------------------------------------
(* The FeatureProcessor and process_geometry.                              *)

Call(op, args) == [op |-> op, args |-> args]

\* What a processor method can answer. The source discards it.
ProcessorAnswers == {"ok", "failed"}

\* The arms of process_geometry's match that are written; every other
\* geometry reaches `_ => todo!()`.
Dispatchable == {"Point", "MultiPoint", "LineString", "MultiLineString", "Polygon"}

\* The processor calls process_geometry makes for g, in order.
process_geometry(g) ==
    CASE g.kind = "Point" ->
            <<Call("point_begin", <<0>>),
              Call("pointxy", <<g.coordinates[1], g.coordinates[2], 0>>),
              Call("point_end", <<>>)>>
      [] g.kind = "MultiPoint" ->
            <<Call("multipoint_begin", <<Len(g.coordinates), 0>>),
              Call("multipoint_end", <<>>)>>
      [] g.kind = "LineString" ->
            <<Call("line_begin", <<Len(g.coordinates), 0>>),
              Call("line_end", <<0>>)>>
      [] g.kind = "MultiLineString" ->
            <<Call("multiline_begin", <<Len(g.coordinates), 0>>),
              Call("multiline_end", <<>>)>>
      [] g.kind = "Polygon" ->
            <<Call("poly_begin", <<Len(g.coordinates), 0>>),
              Call("poly_end", <<0>>)>>
      [] OTHER -> <<>>

-----------------------------------------------------------------------------
(* process_geojson, step by step.                                          *)

Init ==
    /\ input \in Documents
    /\ pc = "start"
    /\ geojsontype = InitialType
    /\ read_ofs = 0
    /\ seq = <<>>
    /\ decoded = "none"
    /\ feat = NoFeature
    /\ geom = NoGeom
    /\ step = 0
    /\ ret = ""
    /\ dispatched = 0
    /\ events = <<>>
    /\ failedAt = 0
    /\ result = ""

\* Return from process_geojson.
Return(r) == pc' = "done" /\ result' = r

\* process_feature(&f, processor): it calls process_geometry(&f.geometry).
process_feature(f, to) ==
    /\ dispatched' = dispatched + 1
    /\ feat' = f
    /\ geom' = f.geometry
    /\ step' = 1
    /\ ret' = to
    /\ pc' = "geometry"

\* line 89: read_geojson_prelude(reader.clone())
Prelude ==
    /\ pc = "start"
    /\ geojsontype' = read_geojson_prelude(input).geojsontype
    /\ read_ofs' = read_geojson_prelude(input).read_ofs
    /\ pc' = "match"
    /\ UNCHANGED <<input, seq, decoded, feat, geom, step, ret, dispatched, events,
                   failedAt, result>>

\* lines 92-94 and 118-120: read_features seeks to read_ofs and takes
\* serde_json::from_reader(reader).into_iter(): the iterator of a Result,
\* which yields the one decoded Feature, or nothing when decoding failed.
ReadFeatures ==
    /\ pc = "match"
    /\ geojsontype = "FeatureCollection" /\ read_ofs > 0
    /\ LET r == from_reader_Feature(SeekFrom(input, read_ofs)) IN
       /\ seq' = IF r.ok THEN <<r.v>> ELSE <<>>
       /\ decoded' = IF r.ok THEN "ok" ELSE "error"
    /\ pc' = "loop"
    /\ UNCHANGED <<input, geojsontype, read_ofs, feat, geom, step, ret, dispatched,
                   events, failedAt, result>>

\* lines 121-122: for f in seq { process_feature(&f, processor) }
NextFeature ==
    /\ pc = "loop" /\ seq # <<>>
    /\ process_feature(Head(seq), "loop")
    /\ seq' = Tail(seq)
    /\ UNCHANGED <<input, geojsontype, read_ofs, decoded, events, failedAt, result>>

\* line 124, then lines 94 and 110: the iterator is exhausted, Ok(()).
FeaturesDone ==
    /\ pc = "loop" /\ seq = <<>>
    /\ Return("Ok")
    /\ UNCHANGED <<input, geojsontype, read_ofs, seq, decoded, feat, geom, step, ret,
                   dispatched, events, failedAt>>

\* lines 96-99: the document is decoded as one Feature, `?` returns its error.
ReadFeature ==
    /\ pc = "match"
    /\ geojsontype = "Feature"
    /\ LET r == from_reader_Feature(input) IN
       IF r.ok
       THEN /\ process_feature(r.v, "exit")
            /\ decoded' = "ok"
            /\ UNCHANGED result
       ELSE /\ Return("Err")
            /\ decoded' = "error"
            /\ UNCHANGED <<feat, geom, step, ret, dispatched>>
    /\ UNCHANGED <<input, geojsontype, read_ofs, seq, events, failedAt>>

\* lines 101-104: the document is decoded as one Geometry.
ReadGeometry ==
    /\ pc = "match"
    /\ geojsontype = "Geometry"
    /\ LET r == from_reader_Geometry(input) IN
       IF r.ok
       THEN /\ geom' = r.v
            /\ step' = 1
            /\ ret' = "exit"
            /\ pc' = "geometry"
            /\ decoded' = "ok"
            /\ UNCHANGED result
       ELSE /\ Return("Err")
            /\ decoded' = "error"
            /\ UNCHANGED <<geom, step, ret>>
    /\ UNCHANGED <<input, geojsontype, read_ofs, seq, feat, dispatched, events, failedAt>>

\* lines 106-110: any other prelude, Ok(()).
PreludeFailed ==
    /\ pc = "match"
    /\ ~(geojsontype = "FeatureCollection" /\ read_ofs > 0)
    /\ geojsontype \notin {"Feature", "Geometry"}
    /\ Return("Ok")
    /\ UNCHANGED <<input, geojsontype, read_ofs, seq, decoded, feat, geom, step, ret,
                   dispatched, events, failedAt>>

\* process_geometry: the next processor call. The processor's answer is
\* dropped (`processor.point_begin(0);`), whatever it is.
ProcessorCall ==
    /\ pc = "geometry"
    /\ geom.kind \in Dispatchable
    /\ step <= Len(process_geometry(geom))
    /\ events' = Append(events, process_geometry(geom)[step])
    /\ \E answer \in ProcessorAnswers :
          failedAt' = IF failedAt = 0 /\ answer = "failed"
                      THEN Len(events) + 1 ELSE failedAt
    /\ step' = step + 1
    /\ UNCHANGED <<input, pc, geojsontype, read_ofs, seq, decoded, feat, geom, ret,
                   dispatched, result>>

\* process_geometry returns: to the loop of read_features, or to the
\* Ok(()) of line 110.
GeometryDone ==
    /\ pc = "geometry"
    /\ geom.kind \in Dispatchable
    /\ step > Len(process_geometry(geom))
    /\ IF ret = "loop" THEN pc' = "loop" /\ UNCHANGED result ELSE Return("Ok")
    /\ UNCHANGED <<input, geojsontype, read_ofs, seq, decoded, feat, geom, step, ret,
                   dispatched, events, failedAt>>

\* line 162: `_ => todo!()` panics.
Todo ==
    /\ pc = "geometry"
    /\ geom.kind \notin Dispatchable
    /\ Return("Panic")
    /\ UNCHANGED <<input, geojsontype, read_ofs, seq, decoded, feat, geom, step, ret,
                   dispatched, events, failedAt>>

Next ==
    \/ Prelude
    \/ ReadFeatures
    \/ NextFeature
    \/ FeaturesDone
    \/ ReadFeature
    \/ ReadGeometry
    \/ PreludeFailed
    \/ ProcessorCall
    \/ GeometryDone
    \/ Todo

Spec == Init /\ [][Next]_vars
-----------------------------------------------------------------------------
(* What a document says, read off its text without the reader above.       *)

\* The name that the member "type" of the top-level object gives, as the
\* string "name" or, in serde's other notation, as { "name": null }
\* ("": there is no such member, or it gives no name).
RECURSIVE TopLevelTypeFrom(_, _, _)
TopLevelTypeFrom(ts, i, depth) ==
    IF i > Len(ts) THEN ""
    ELSE IF depth = 1 /\ ts[i] = Str("type") /\ i + 2 <= Len(ts) /\ ts[i + 1] = Colon
    THEN IF ts[i + 2].k = "s" THEN ts[i + 2].c
         ELSE IF /\ i + 6 <= Len(ts) /\ ts[i + 2] = LBrace /\ ts[i + 3].k = "s"
                 /\ ts[i + 4] = Colon /\ ts[i + 5] = Lit("null") /\ ts[i + 6] = RBrace
         THEN ts[i + 3].c
         ELSE ""
    ELSE IF ts[i] \in {LBrace, LBrack} THEN TopLevelTypeFrom(ts, i + 1, depth + 1)
    ELSE IF ts[i] \in {RBrace, RBrack} THEN TopLevelTypeFrom(ts, i + 1, depth - 1)
    ELSE TopLevelTypeFrom(ts, i + 1, depth)

TopLevelType(text) == TopLevelTypeFrom(StripWs(text), 1, 0)

\* The byte position right after the '[' that opens the value of the member
\* "features" of the top-level object (0: there is none). `seen` counts how
\* much of  "features" : [  has just been read, `ofs` the bytes before token i.
RECURSIVE FeaturesOffsetFrom(_, _, _, _, _)
FeaturesOffsetFrom(ts, i, depth, seen, ofs) ==
    IF i > Len(ts) THEN 0
    ELSE LET t == ts[i]
             after == ofs + Bytes(t)
         IN IF t.k = "w" THEN FeaturesOffsetFrom(ts, i + 1, depth, seen, after)
            ELSE IF seen = 2 /\ t = LBrack THEN after
            ELSE IF t \in {LBrace, LBrack}
            THEN FeaturesOffsetFrom(ts, i + 1, depth + 1, 0, after)
            ELSE IF t \in {RBrace, RBrack}
            THEN FeaturesOffsetFrom(ts, i + 1, depth - 1, 0, after)
            ELSE IF depth = 1 /\ t = Str("features")
            THEN FeaturesOffsetFrom(ts, i + 1, depth, 1, after)
            ELSE IF seen = 1 /\ t = Colon
            THEN FeaturesOffsetFrom(ts, i + 1, depth, 2, after)
            ELSE FeaturesOffsetFrom(ts, i + 1, depth, 0, after)

FeaturesOffset(text) == FeaturesOffsetFrom(text, 1, 0, 0, 0)

SixKinds == {"Point", "MultiPoint", "LineString", "MultiLineString", "Polygon",
             "MultiPolygon"}

\* A Feature object whose geometry is of one of the six kinds.
IsFeatureObject(v) == Feature(v).ok /\ Feature(v).v.geometry.kind \in SixKinds

\* The text from the offset on is the rest of a well-formed array of
\* Feature objects: its number of elements, or -1.
ArrayOfFeatures(rest) ==
    LET r == ParseValue(<<LBrack>> \o StripWs(rest), 1) IN
    IF r.ok /\ \A i \in 1..Len(r.v.e) : IsFeatureObject(r.v.e[i])
    THEN Len(r.v.e) ELSE -1

\* The text from token i on is Feature objects back to back, with or without
\* commas between them, up to the end of the input: their number, or -1.
RECURSIVE BackToBackFrom(_, _)
BackToBackFrom(ts, i) ==
    IF i > Len(ts) THEN 0
    ELSE LET r == ParseValue(ts, i)
             j == IF r.n <= Len(ts) /\ ts[r.n] = Comma /\ r.n < Len(ts)
                  THEN r.n + 1 ELSE r.n
         IN IF r.ok /\ IsFeatureObject(r.v) /\ BackToBackFrom(ts, j) >= 0
            THEN 1 + BackToBackFrom(ts, j) ELSE -1

BackToBack(rest) == BackToBackFrom(StripWs(rest), 1)

\* The shape names the prelude reader routes to a decoder.
RecognizedShapes == {"FeatureCollection", "Feature", "Geometry"}

\* The calls of `events` whose method is one of ops.
Only(ops) == SelectSeq(events, LAMBDA e : e.op \in ops)

-----------------------------------------------------------------------------
(* The claims.                                                             *)

\* C1: for a FeatureCollection with an offset > 0, the number of Features
\* dispatched equals the number of Feature objects after the offset, both
\* for a well-formed closed array and for Feature objects back to back in a
\* truncated text.
C1_DispatchesEveryFeature ==
    (pc = "done" /\ geojsontype = "FeatureCollection" /\ read_ofs > 0) =>
        LET rest == SeekFrom(input, read_ofs) IN
        /\ ArrayOfFeatures(rest) >= 0 => dispatched = ArrayOfFeatures(rest)
        /\ BackToBack(rest) >= 0 => dispatched = BackToBack(rest)

\* C2: when a Feature after the FeatureCollection offset cannot be decoded
\* (the text after the '[' of `features` is neither a well-formed array of Features nor Features
\* back to back, and the decoder reports an error), process_geojson returns
\* Err, never Ok(()).
C2_DecodeFailureIsReturned ==
    (pc = "done" /\ geojsontype = "FeatureCollection" /\ read_ofs > 0
        /\ read_ofs = FeaturesOffset(input)
        /\ decoded = "error"
        /\ ArrayOfFeatures(SeekFrom(input, read_ofs)) < 0
        /\ BackToBack(SeekFrom(input, read_ofs)) < 0) => result = "Err"

\* C3: a document whose top-level `type` is absent or no recognized shape
\* name is sniffed as Unknown with offset 0, and process_geojson returns
\* Ok(()) without a panic and without any call of the processor.
C3_UnknownTypeDecodesNothing ==
    TopLevelType(input) \notin RecognizedShapes =>
        /\ geojsontype = "Unknwown" /\ read_ofs = 0
        /\ events = <<>> /\ dispatched = 0
        /\ result = (IF pc = "done" THEN "Ok" ELSE "")

\* C3, witness: the document of tests::missing_type, "type": "WrongType"
\* before a well-formed array of one Feature, has been read to the end.
C3_Witness ==
    /\ pc = "done" /\ result = "Ok"
    /\ TopLevelType(input) = "WrongType"
    /\ FeaturesOffset(input) > 0
    /\ ArrayOfFeatures(SeekFrom(input, FeaturesOffset(input))) = 1

\* C4: the offset of the prelude is non-zero only for a FeatureCollection
\* whose '[' was found within the first 1024 bytes, and then it is the byte
\* position right after the '[' that opens the top-level `features` array.
C4_OffsetIsFeaturesArray ==
    (pc # "start" /\ read_ofs # 0) =>
        /\ geojsontype = "FeatureCollection"
        /\ read_ofs <= PreludeCap
        /\ read_ofs = FeaturesOffset(input)

\* C5: dispatching a Polygon with one ring of N coordinates issues
\* poly_begin(1, 0), then one coordinate call per coordinate of the ring in
\* order, then poly_end(0), and nothing else.
C5_PolygonRingEvents ==
    (pc = "done" /\ geom.kind = "Polygon" /\ Len(geom.coordinates) = 1) =>
        LET ring == geom.coordinates[1]
            N == Len(ring)
        IN /\ Len(events) = N + 2
           /\ events[1] = Call("poly_begin", <<1, 0>>)
           /\ \A i \in 1..N : /\ events[i + 1].op = "pointxy"
                              /\ events[i + 1].args[1] = ring[i][1]
                              /\ events[i + 1].args[2] = ring[i][2]
           /\ events[N + 2] = Call("poly_end", <<0>>)

PointDocument == GeometryText(G("Point", 2, 1))

\* C6: a bare Geometry document of one of the six kinds is sniffed as
\* Geometry, and process_geojson on {"type":"Point","coordinates":[1,1]}
\* returns Ok after exactly point_begin(0), pointxy(1, 1, 0), point_end().
C6_BareGeometryIsDispatched ==
    /\ (pc # "start" /\ from_reader_Geometry(input).ok
           /\ from_reader_Geometry(input).v.kind \in SixKinds)
          => geojsontype = "Geometry"
    /\ (pc = "done" /\ input = PointDocument) =>
          /\ result = "Ok"
          /\ events = <<Call("point_begin", <<0>>), Call("pointxy", <<1, 1, 0>>),
                        Call("point_end", <<>>)>>

\* C7: for a dispatched Feature the processor receives properties_begin(),
\* one property(key, value) per member of `properties` in document order,
\* then properties_end().
C7_PropertiesAreStreamed ==
    (pc = "done" /\ result = "Ok" /\ dispatched = 1) =>
        LET got == Only({"properties_begin", "property", "properties_end"})
            N == Len(feat.properties)
        IN /\ Len(got) = N + 2
           /\ got[1].op = "properties_begin"
           /\ \A i \in 1..N : /\ got[i + 1].op = "property"
                              /\ got[i + 1].args[1] = feat.properties[i].k
                              /\ got[i + 1].args[2] = feat.properties[i].v
           /\ got[N + 2].op = "properties_end"

\* C8: when the decoded geometry is a GeometryCollection, the call returns
\* an error: no panic, no Ok(()).
C8_UnsupportedGeometryIsAnError ==
    (pc = "done" /\ geom.kind = "GeometryCollection") => result = "Err"

\* C9: when a processor call signals failure, no further processor call is
\* made and process_geojson returns the failure as an error.
C9_ConsumerFailureAborts ==
    (pc = "done" /\ failedAt > 0) => (result = "Err" /\ Len(events) = failedAt)

\* The begin and the end call of a geometry of the kinds with one pair.
BeginCall(g) ==
    CASE g.kind = "Point" -> Call("point_begin", <<0>>)
      [] g.kind = "MultiPoint" -> Call("multipoint_begin", <<Len(g.coordinates), 0>>)
      [] g.kind = "LineString" -> Call("line_begin", <<Len(g.coordinates), 0>>)
      [] g.kind = "MultiLineString" -> Call("multiline_begin", <<Len(g.coordinates), 0>>)
      [] OTHER -> Call("poly_begin", <<Len(g.coordinates), 0>>)

EndCall(g) ==
    CASE g.kind = "Point" -> Call("point_end", <<>>)
      [] g.kind = "MultiPoint" -> Call("multipoint_end", <<>>)
      [] g.kind = "LineString" -> Call("line_end", <<0>>)
      [] g.kind = "MultiLineString" -> Call("multiline_end", <<>>)
      [] OTHER -> Call("poly_end", <<0>>)

\* C10: for a geometry of each of the six kinds process_geometry returns
\* normally, having issued the begin call of the kind, with the number of
\* parts and index 0, first and its end call last; for a MultiPolygon, one
\* poly_begin and one poly_end per polygon.
C10_SixKindsAreDispatched ==
    (pc = "done" /\ geom.kind \in SixKinds) =>
        /\ result = "Ok"
        /\ IF geom.kind = "MultiPolygon"
           THEN /\ Len(Only({"poly_begin"})) = Len(geom.coordinates)
                /\ Len(Only({"poly_end"})) = Len(geom.coordinates)
           ELSE /\ Len(events) >= 2
                /\ events[1] = BeginCall(geom)
                /\ events[Len(events)] = EndCall(geom)
====
